---- MODULE Spec2Model ----
(***************************************************************************)
(* Solvee: the line-by-line recompute of SolveeCalculator.calculate        *)
(* (src/solvee.py).  A line of text is a sequence of one-character         *)
(* strings, so that strip, split, replace and isidentifier are modelled    *)
(* by what they do to the characters.  The built-in eval is modelled by a  *)
(* tokenizer, a parser and an evaluator for the subset of Python           *)
(* expressions written with decimal integers, names, + - * / % **, unary   *)
(* signs, parentheses and calls; a text outside that subset is reported    *)
(* as "Unsupported" and InSubset checks that no reachable evaluation       *)
(* meets one.                                                              *)
(***************************************************************************)
EXTENDS Integers, Sequences, FiniteSets, TLC

VARIABLES lines, results, scope, k, pc

vars == <<lines, results, scope, k, pc>>

(***************************************************************************)
(* Characters and the str methods used by calculate.                       *)
(***************************************************************************)
Whitespace == {" ", "\t"}

Digits == {"0", "1", "2", "3", "4", "5", "6", "7", "8", "9"}

Letters ==
  {"a", "b", "c", "d", "e", "f", "g", "h", "i", "j", "k", "l", "m",
   "n", "o", "p", "q", "r", "s", "t", "u", "v", "w", "x", "y", "z",
   "A", "B", "C", "D", "E", "F", "G", "H", "I", "J", "K", "L", "M",
   "N", "O", "P", "Q", "R", "S", "T", "U", "V", "W", "X", "Y", "Z"}

IdStart == Letters \cup {"_"}

IdPart == IdStart \cup Digits

DigitVal(c) ==
  CASE c = "0" -> 0 [] c = "1" -> 1 [] c = "2" -> 2 [] c = "3" -> 3
    [] c = "4" -> 4 [] c = "5" -> 5 [] c = "6" -> 6 [] c = "7" -> 7
    [] c = "8" -> 8 [] c = "9" -> 9

SetMin(S) == CHOOSE m \in S : \A n \in S : m <= n

SetMax(S) == CHOOSE m \in S : \A n \in S : n <= m

RECURSIVE lstrip(_)
lstrip(s) ==
  IF s # <<>> /\ Head(s) \in Whitespace THEN lstrip(Tail(s)) ELSE s

RECURSIVE rstrip(_)
rstrip(s) ==
  IF s # <<>> /\ s[Len(s)] \in Whitespace
    THEN rstrip(SubSeq(s, 1, Len(s) - 1)) ELSE s

\* str.strip(): drop the leading and the trailing whitespace
strip(s) == rstrip(lstrip(s))

\* the positions where the marker "==" starts
MarkerAt(s) == {i \in 1..(Len(s) - 1) : s[i] = "=" /\ s[i + 1] = "="}

\* "==" in s
HasMarker(s) == MarkerAt(s) # {}

\* s.split("==", 1): the text before and the text after the first marker
split_first(s) ==
  LET i == SetMin(MarkerAt(s))
  IN  <<SubSeq(s, 1, i - 1), SubSeq(s, i + 2, Len(s))>>

RECURSIVE replace_caret(_)
\* s.replace("^", "**")
replace_caret(s) ==
  IF s = <<>> THEN <<>>
  ELSE (IF Head(s) = "^" THEN <<"*", "*">> ELSE <<Head(s)>>)
         \o replace_caret(Tail(s))

\* str.isidentifier(), on the characters of the model
isidentifier(s) ==
  /\ Len(s) > 0
  /\ s[1] \in IdStart
  /\ \A i \in 2..Len(s) : s[i] \in IdPart

RECURSIVE Join(_)
\* the text of a sequence of characters as one string
Join(s) == IF s = <<>> THEN "" ELSE Head(s) \o Join(Tail(s))

(***************************************************************************)
(* eval, first half: compiling the text.  Tokens, then a syntax tree.      *)
(***************************************************************************)
Keywords ==
  {"False", "None", "True", "and", "as", "assert", "async", "await",
   "break", "class", "continue", "def", "del", "elif", "else", "except",
   "finally", "for", "from", "global", "if", "import", "in", "is",
   "lambda", "nonlocal", "not", "or", "pass", "raise", "return", "try",
   "while", "with", "yield"}

OpChars == {"+", "-", "%", "(", ")"}

\* the end of the run of characters of class C that starts at i
RunEnd(s, i, C) ==
  LET stops == {j \in i..Len(s) : s[j] \notin C}
  IN  IF stops = {} THEN Len(s) ELSE SetMin(stops) - 1

RECURSIVE DecimalValue(_)
DecimalValue(ds) ==
  IF ds = <<>> THEN 0
  ELSE 10 * DecimalValue(SubSeq(ds, 1, Len(ds) - 1)) + DigitVal(ds[Len(ds)])

Tok(kind, v, s) == [kind |-> kind, v |-> v, s |-> s]

Lexed(st, toks) == [st |-> st, toks |-> toks]

RECURSIVE Tokenize(_, _, _)
Tokenize(s, i, acc) ==
  IF i > Len(s) THEN Lexed("ok", acc)
  ELSE LET c == s[i] IN
    CASE c \in Whitespace -> Tokenize(s, i + 1, acc)
      [] c \in Digits ->
           LET j  == RunEnd(s, i, Digits)
               ds == SubSeq(s, i, j)
           IN  IF j < Len(s) /\ s[j + 1] \in IdStart \cup {"."}
                 THEN Lexed("Unsupported", acc)
               ELSE IF Len(ds) > 1 /\ ds[1] = "0" /\ DecimalValue(ds) # 0
                 THEN Lexed("SyntaxError", acc)
               ELSE Tokenize(s, j + 1, Append(acc, Tok("num", DecimalValue(ds), "")))
      [] c \in IdStart ->
           LET j  == RunEnd(s, i, IdPart)
               id == Join(SubSeq(s, i, j))
           IN  IF id \in Keywords THEN Lexed("Unsupported", acc)
               ELSE Tokenize(s, j + 1, Append(acc, Tok("name", 0, id)))
      [] c = "*" ->
           IF i < Len(s) /\ s[i + 1] = "*"
             THEN Tokenize(s, i + 2, Append(acc, Tok("op", 0, "**")))
             ELSE Tokenize(s, i + 1, Append(acc, Tok("op", 0, "*")))
      [] c = "/" ->
           IF i < Len(s) /\ s[i + 1] = "/"
             THEN Lexed("Unsupported", acc)
             ELSE Tokenize(s, i + 1, Append(acc, Tok("op", 0, "/")))
      [] c \in OpChars -> Tokenize(s, i + 1, Append(acc, Tok("op", 0, c)))
      [] c \in {"=", "°"} -> Lexed("SyntaxError", acc)
      [] OTHER -> Lexed("Unsupported", acc)

IsOp(t, p, S) == p <= Len(t) /\ t[p].kind = "op" /\ t[p].s \in S

Parsed(ast, pos) == [ok |-> TRUE, ast |-> ast, pos |-> pos]

NoParse == [ok |-> FALSE, ast |-> <<>>, pos |-> 0]

Num(v) == [node |-> "num", v |-> v]

Name(id) == [node |-> "name", id |-> id]

Bin(op, l, r) == [node |-> "bin", op |-> op, l |-> l, r |-> r]

Unary(op, e) == [node |-> "unary", op |-> op, e |-> e]

Call(f, args) == [node |-> "call", f |-> f, args |-> args]

RECURSIVE ParseArith(_, _), ArithRest(_, _), ParseTerm(_, _), TermRest(_, _)
RECURSIVE ParseFactor(_, _), ParsePower(_, _), ParsePrimary(_, _), Trailers(_, _)
RECURSIVE ParseAtom(_, _)

\* the tree of a binary operator once its right operand r is parsed
BinAfter(op, l, r) ==
  IF r.ok THEN Parsed(Bin(op, l.ast, r.ast), r.pos) ELSE NoParse

\* the tree of a sign once its operand e is parsed
UnaryAfter(op, e) ==
  IF e.ok THEN Parsed(Unary(op, e.ast), e.pos) ELSE NoParse

\* the tree of a call of f once its argument a is parsed: ')' must follow
CallAfter(t, f, a) ==
  IF a.ok /\ IsOp(t, a.pos, {")"})
    THEN Parsed(Call(f.ast, <<a.ast>>), a.pos + 1) ELSE NoParse

\* a parenthesised expression e: ')' must follow
Closed(t, e) ==
  IF e.ok /\ IsOp(t, e.pos, {")"}) THEN Parsed(e.ast, e.pos + 1) ELSE NoParse

\* arith_expr: term (('+' | '-') term)*
ParseArith(t, p) == ArithRest(t, ParseTerm(t, p))

\* l is what is parsed so far
ArithRest(t, l) ==
  IF l.ok /\ IsOp(t, l.pos, {"+", "-"})
    THEN ArithRest(t, BinAfter(t[l.pos].s, l, ParseTerm(t, l.pos + 1)))
    ELSE l

\* term: factor (('*' | '/' | '%') factor)*
ParseTerm(t, p) == TermRest(t, ParseFactor(t, p))

TermRest(t, l) ==
  IF l.ok /\ IsOp(t, l.pos, {"*", "/", "%"})
    THEN TermRest(t, BinAfter(t[l.pos].s, l, ParseFactor(t, l.pos + 1)))
    ELSE l

\* factor: ('+' | '-') factor | power
ParseFactor(t, p) ==
  IF IsOp(t, p, {"+", "-"})
    THEN UnaryAfter(t[p].s, ParseFactor(t, p + 1))
    ELSE ParsePower(t, p)

\* what follows the primary b of a power: ['**' factor]
PowerRest(t, b) ==
  IF b.ok /\ IsOp(t, b.pos, {"**"})
    THEN BinAfter("**", b, ParseFactor(t, b.pos + 1))
    ELSE b

\* power: primary ['**' factor]
ParsePower(t, p) == PowerRest(t, ParsePrimary(t, p))

\* primary: atom ('(' [arith_expr] ')')*
ParsePrimary(t, p) == Trailers(t, ParseAtom(t, p))

Trailers(t, f) ==
  IF ~f.ok \/ ~IsOp(t, f.pos, {"("}) THEN f
  ELSE IF IsOp(t, f.pos + 1, {")"})
    THEN Trailers(t, Parsed(Call(f.ast, <<>>), f.pos + 2))
  ELSE Trailers(t, CallAfter(t, f, ParseArith(t, f.pos + 1)))

\* atom: NUMBER | NAME | '(' arith_expr ')'
ParseAtom(t, p) ==
  IF p > Len(t) THEN NoParse
  ELSE IF t[p].kind = "num" THEN Parsed(Num(t[p].v), p + 1)
  ELSE IF t[p].kind = "name" THEN Parsed(Name(t[p].s), p + 1)
  ELSE IF IsOp(t, p, {"("}) THEN Closed(t, ParseArith(t, p + 1))
  ELSE NoParse

Compiled(st, ast) == [st |-> st, ast |-> ast]

\* the tree of the whole text: the parse r must end where the tokens end
Whole(r, n) ==
  IF r.ok /\ r.pos = n + 1 THEN Compiled("ok", r.ast)
  ELSE Compiled("SyntaxError", <<>>)

\* the code object of the tokens lx, or the reason there is none
Parse(lx) ==
  IF lx.st # "ok" THEN Compiled(lx.st, <<>>)
  ELSE Whole(ParseArith(lx.toks, 1), Len(lx.toks))

\* the code object eval builds from the text, or the reason it builds none
compile(s) == Parse(Tokenize(s, 1, <<>>))

(***************************************************************************)
(* eval, second half: the values and the evaluation of the tree.  A        *)
(* number is the exact fraction n/d (d > 0, lowest terms), inf and nan are *)
(* the two floats that are no fraction, and a function of the math module  *)
(* is its name.  int and float are not told apart: format_result treats    *)
(* them alike.                                                             *)
(***************************************************************************)
Abs(n) == IF n < 0 THEN -n ELSE n

Sign(n) == IF n < 0 THEN -1 ELSE IF n = 0 THEN 0 ELSE 1

RECURSIVE Gcd(_, _)
Gcd(a, b) == IF b = 0 THEN a ELSE Gcd(b, a % b)

Rat(n, d) ==
  LET g == Gcd(Abs(n), Abs(d))
  IN  [t |-> "num", n |-> Sign(d) * (n \div g), d |-> Abs(d) \div g, f |-> ""]

Inf(sgn) == [t |-> "inf", n |-> sgn, d |-> 0, f |-> ""]

NaN == [t |-> "nan", n |-> 0, d |-> 0, f |-> ""]

Fn(name) == [t |-> "fn", n |-> 0, d |-> 0, f |-> name]

IsZero(a) == a.t = "num" /\ a.n = 0

Returned(v) == [exc |-> "", v |-> v]

Raised(e) == [exc |-> e, v |-> NaN]

Neg(a) ==
  CASE a.t = "nan" -> NaN
    [] a.t = "inf" -> Inf(-a.n)
    [] OTHER -> Rat(-a.n, a.d)

Add(a, b) ==
  CASE a.t = "nan" \/ b.t = "nan" -> NaN
    [] a.t = "inf" /\ b.t = "inf" -> IF a.n = b.n THEN a ELSE NaN
    [] a.t = "inf" -> a
    [] b.t = "inf" -> b
    [] OTHER -> Rat(a.n * b.d + b.n * a.d, a.d * b.d)

Mul(a, b) ==
  CASE a.t = "nan" \/ b.t = "nan" -> NaN
    [] a.t = "inf" \/ b.t = "inf" ->
         IF IsZero(a) \/ IsZero(b) THEN NaN ELSE Inf(Sign(a.n) * Sign(b.n))
    [] OTHER -> Rat(a.n * b.n, a.d * b.d)

\* a / b for b # 0
Div(a, b) ==
  CASE a.t = "nan" \/ b.t = "nan" -> NaN
    [] a.t = "inf" /\ b.t = "inf" -> NaN
    [] a.t = "inf" -> Inf(a.n * Sign(b.n))
    [] b.t = "inf" -> Rat(0, 1)
    [] OTHER -> Rat(a.n * b.d, a.d * b.n)

\* floor(n/d) for d > 0
Floor(n, d) == n \div d

\* a % b for b # 0: the result takes the sign of b
Mod(a, b) ==
  CASE a.t = "nan" \/ b.t = "nan" -> NaN
    [] a.t = "inf" -> NaN
    [] b.t = "inf" -> IF IsZero(a) \/ Sign(a.n) = b.n THEN a ELSE b
    [] OTHER ->
         LET q == Rat(a.n * b.d, a.d * b.n)
         IN  Add(a, Neg(Mul(b, Rat(Floor(q.n, q.d), 1))))

RECURSIVE IntPow(_, _)
IntPow(a, e) == IF e = 0 THEN Rat(1, 1) ELSE Mul(a, IntPow(a, e - 1))

\* a ** b: a fraction to an integer power; the rest is outside the subset
Pow(a, b) ==
  IF a.t = "num" /\ b.t = "num" /\ b.d = 1
    THEN IF b.n >= 0 THEN Returned(IntPow(a, b.n))
         ELSE IF a.n = 0 THEN Raised("ZeroDivisionError")
         ELSE Returned(Div(Rat(1, 1), IntPow(a, -b.n)))
    ELSE Raised("Unsupported")

BinOp(op, a, b) ==
  IF a.t = "fn" \/ b.t = "fn" THEN Raised("TypeError")
  ELSE CASE op = "+" -> Returned(Add(a, b))
         [] op = "-" -> Returned(Add(a, Neg(b)))
         [] op = "*" -> Returned(Mul(a, b))
         [] op = "/" -> IF IsZero(b) THEN Raised("ZeroDivisionError")
                        ELSE Returned(Div(a, b))
         [] op = "%" -> IF IsZero(b) THEN Raised("ZeroDivisionError")
                        ELSE Returned(Mod(a, b))
         [] op = "**" -> Pow(a, b)

IsSquare(n) == \E r \in 0..n : r * r = n

Isqrt(n) == CHOOSE r \in 0..n : r * r = n

\* math.sqrt
sqrt(args) ==
  IF Len(args) # 1 \/ args[1].t = "fn" THEN Raised("TypeError")
  ELSE LET a == args[1] IN
    CASE a.t = "nan" -> Returned(NaN)
      [] a.t = "inf" -> IF a.n > 0 THEN Returned(a) ELSE Raised("ValueError")
      [] a.n < 0 -> Raised("ValueError")
      [] IsSquare(a.n) /\ IsSquare(a.d) -> Returned(Rat(Isqrt(a.n), Isqrt(a.d)))
      [] OTHER -> Raised("Unsupported")

\* a call of the value f: only a function can be called
Apply(f, args) ==
  IF f.t # "fn" THEN Raised("TypeError")
  ELSE IF f.f = "sqrt" THEN sqrt(args)
  ELSE Raised("Unsupported")

RECURSIVE Eval(_, _)
\* the value of a tree in a scope; operands left to right, as Python does
Eval(ast, sc) ==
  CASE ast.node = "num" -> Returned(Rat(ast.v, 1))
    [] ast.node = "name" ->
         IF ast.id \in DOMAIN sc THEN Returned(sc[ast.id]) ELSE Raised("NameError")
    [] ast.node = "unary" ->
         LET e == Eval(ast.e, sc)
         IN  IF e.exc # "" THEN e
             ELSE IF e.v.t = "fn" THEN Raised("TypeError")
             ELSE IF ast.op = "-" THEN Returned(Neg(e.v)) ELSE e
    [] ast.node = "bin" ->
         LET l == Eval(ast.l, sc)
         IN  IF l.exc # "" THEN l
             ELSE LET r == Eval(ast.r, sc)
                  IN  IF r.exc # "" THEN r ELSE BinOp(ast.op, l.v, r.v)
    [] ast.node = "call" ->
         LET f == Eval(ast.f, sc)
         IN  IF f.exc # "" THEN f
             ELSE IF ast.args = <<>> THEN Apply(f.v, <<>>)
             ELSE LET a == Eval(ast.args[1], sc)
                  IN  IF a.exc # "" THEN a ELSE Apply(f.v, <<a.v>>)

(***************************************************************************)
(* The documents.  The editor's text is the sequence of its lines          *)
(* (toPlainText().split('\n')), each line one of the texts below.          *)
(***************************************************************************)
MaxLines == 3

\* "  "
WhitespaceOnly ==
  <<" ", " ">>

\* "10 + 5 == x"
AssignX ==
  <<"1", "0", " ", "+", " ", "5", " ", "=", "=", " ", "x">>

\* "x * 2"
UseX ==
  <<"x", " ", "*", " ", "2">>

\* "100 + 22%"
PercentAdd ==
  <<"1", "0", "0", " ", "+", " ", "2", "2", "%">>

\* "sqrt()"
NoArgument ==
  <<"s", "q", "r", "t", "(", ")">>

\* "sqrt(0 - 4)"
NegativeRoot ==
  <<"s", "q", "r", "t", "(", "0", " ", "-", " ", "4", ")">>

\* "0°C to fahrenheit"
Conversion ==
  <<"0", "°", "C", " ", "t", "o", " ", "f", "a", "h", "r", "e", "n", "h", "e", "i", "t">>

\* "5 == 2x"
BadTarget ==
  <<"5", " ", "=", "=", " ", "2", "x">>

\* "1/0 == 2x"
BadTargetBadExpr ==
  <<"1", "/", "0", " ", "=", "=", " ", "2", "x">>

\* "10 == pi"
ShadowPi ==
  <<"1", "0", " ", "=", "=", " ", "p", "i">>

\* "pi"
UsePi ==
  <<"p", "i">>

\* "1/0 == x"
DivZeroToX ==
  <<"1", "/", "0", " ", "=", "=", " ", "x">>

\* "sqrt == x"
FunctionToX ==
  <<"s", "q", "r", "t", " ", "=", "=", " ", "x">>

\* "inf == x"
InfToX ==
  <<"i", "n", "f", " ", "=", "=", " ", "x">>

\* "7 / 2 ^ 2 == x"
QuarterToX ==
  <<"7", " ", "/", " ", "2", " ", "^", " ", "2", " ", "=", "=", " ", "x">>

Catalog ==
  {WhitespaceOnly, AssignX, UseX, QuarterToX, ShadowPi, UsePi,
   PercentAdd, Conversion, NoArgument, NegativeRoot, DivZeroToX,
   FunctionToX, InfToX, BadTarget, BadTargetBadExpr}

\* the text calculate hands to eval for a line (lines 177-178 and 192)
ExprText(line) ==
  LET clean_line == strip(line)
  IN  IF HasMarker(clean_line)
        THEN replace_caret(strip(split_first(clean_line)[1]))
        ELSE replace_caret(clean_line)

\* the texts of the catalog that reach eval
CatalogTexts == {ExprText(l) : l \in Catalog}

\* the code objects of the texts of the catalog, compiled once
CodeObjects == [e \in CatalogTexts |-> compile(e)]

\* the code object of a text
Code(expr) ==
  IF expr \in CatalogTexts THEN CodeObjects[expr] ELSE compile(expr)

\* the value of a code object in a scope
Run(c, sc) == IF c.st # "ok" THEN Raised(c.st) ELSE Eval(c.ast, sc)

\* eval(expr, {"__builtins__": {}}, scope): the names are those of scope
eval(expr, sc) == Run(Code(expr), sc)

\* f"{val:.2f}" for the fraction n/d: two decimals, rounded half to even
TwoDecimals(n, d) ==
  LET q  == (100 * Abs(n)) \div d
      r  == (100 * Abs(n)) % d
      h  == IF 2 * r < d THEN q
            ELSE IF 2 * r > d THEN q + 1
            ELSE IF q % 2 = 0 THEN q ELSE q + 1
      fp == h % 100
  IN  (IF n < 0 THEN "-" ELSE "") \o ToString(h \div 100) \o "."
        \o (IF fp < 10 THEN "0" ELSE "") \o ToString(fp)

Formatted(s) == [exc |-> "", s |-> s]

FormatRaised(e) == [exc |-> e, s |-> ""]

\* format_result: int(val) raises for inf and for nan
format_result(val) ==
  CASE val.t = "fn" -> Formatted("")
    [] val.t = "inf" -> FormatRaised("OverflowError")
    [] val.t = "nan" -> FormatRaised("ValueError")
    [] OTHER -> IF val.d = 1 THEN Formatted(ToString(val.n))
                ELSE Formatted(TwoDecimals(val.n, val.d))

(***************************************************************************)
(* calculate: the body of the loop over the lines.                         *)
(***************************************************************************)
\* what one pass through the loop body leaves: the strings it appended to
\* results and the scope
Step(appended, sc) == [appended |-> appended, scope |-> sc]

\* line 165: the names of the math module.  The model keeps four of them;
\* pi is 3.14159
Builtins ==
  [n \in {"pi", "inf", "nan", "sqrt"} |->
     CASE n = "pi" -> Rat(314159, 100000)
       [] n = "inf" -> Inf(1)
       [] n = "nan" -> NaN
       [] n = "sqrt" -> Fn("sqrt")]

\* the scope kept from one pass to the next instead of being rebuilt
InitialScope_Kept(old) == old

\* line 165: the scope a pass starts from, whatever the last pass left
InitialScope(old) == Builtins

\* a blank line skipped without a result
OnBlank_NoAppend(sc) == Step(<<>>, sc)

\* lines 169-171: a blank line
OnBlank(sc) == Step(<<"">>, sc)

\* the exception ends the line without a result
OnException_NoAppend(sc) == Step(<<>>, sc)

\* the except clause starts the scope over
OnException_Reset(sc) == Step(<<"">>, Builtins)

\* lines 197-200: the except clause
OnException(sc) == Step(<<"">>, sc)

\* an invalid target blanked like any other failure
OnInvalidName_Blank(sc) == Step(<<"">>, sc)

\* line 187
OnInvalidName(sc) == Step(<<"Error: Invalid Name">>, sc)

\* scope.setdefault(var_name, val): a name already bound keeps its value
Bind_KeepOld(sc, name, val) == sc @@ (name :> val)

\* line 184: scope[var_name] = val
Bind(sc, name, val) == (name :> val) @@ sc

\* the string format_result gave, or the exception it raised
AppendResult(out, sc) ==
  IF out.exc # "" THEN OnException(sc) ELSE Step(<<out.s>>, sc)

\* lines 185 and 195: results.append(self.format_result(val))
AppendFormatted(val, sc) == AppendResult(format_result(val), sc)

\* lines 183-185, once eval has returned val or raised
Store(val, var_name, sc) ==
  IF val.exc # "" THEN OnException(sc)
  ELSE AppendFormatted(val.v, Bind(sc, var_name, val.v))

\* lines 181-187
Assign(expr, var_name, sc) ==
  IF isidentifier(var_name) THEN Store(eval(expr, sc), Join(var_name), sc)
  ELSE OnInvalidName(sc)

\* lines 177-179
AssignParts(parts, sc) ==
  Assign(replace_caret(strip(parts[1])), strip(parts[2]), sc)

\* lines 176-187
Assignment(clean_line, sc) == AssignParts(split_first(clean_line), sc)

\* lines 193-195, once eval has returned res or raised
Show(res, sc) ==
  IF res.exc # "" THEN OnException(sc) ELSE AppendFormatted(res.v, sc)

\* lines 191-195
Expression(clean_line, sc) == Show(eval(replace_caret(clean_line), sc), sc)

\* lines 168-200, for the stripped line
CleanLineStep(clean_line, sc) ==
  IF clean_line = <<>> THEN OnBlank(sc)
  ELSE IF HasMarker(clean_line) THEN Assignment(clean_line, sc)
  ELSE Expression(clean_line, sc)

\* lines 168-200
LineStep(line, sc) == CleanLineStep(strip(line), sc)

\* the rest of a pass after the step st of line i
RECURSIVE Pass(_, _, _, _)
PassOn(doc, i, st, res) == Pass(doc, i + 1, st.scope, res \o st.appended)

\* lines 161-200 in one go: the results of the lines from i on
Pass(doc, i, sc, res) ==
  IF i > Len(doc) THEN res ELSE PassOn(doc, i, LineStep(doc[i], sc), res)

\* the texts one edit at the end of doc away: the last line replaced, a
\* line added after it, the last line removed, or the same text set again
Edits(doc) ==
  {doc}
    \cup {[doc EXCEPT ![Len(doc)] = l] : l \in Catalog}
    \cup {Append(doc, l) : l \in (IF Len(doc) < MaxLines THEN Catalog ELSE {})}
    \cup (IF Len(doc) > 1 THEN {SubSeq(doc, 1, Len(doc) - 1)} ELSE {})

(***************************************************************************)
(* The state machine.  textChanged starts a pass (lines 159-165); the loop *)
(* takes one line at a time; the pass ends by showing the results (line    *)
(* 202).  scope is the local variable of calculate: once a pass is over it *)
(* is dead, and the next pass sets it anew.                                *)
(***************************************************************************)
Init ==
  /\ lines = << <<>> >>
  /\ results = <<>>
  /\ scope = Builtins
  /\ k = 1
  /\ pc = "idle"

TextChanged(doc) ==
  /\ pc \in {"idle", "done"}
  /\ lines' = doc
  /\ results' = <<>>
  /\ scope' = InitialScope(scope)
  /\ k' = 1
  /\ pc' = "loop"

AtLine == pc = "loop" /\ k <= Len(lines)

\* the loop takes the step st and goes on to the next line
Advance(st) ==
  /\ results' = results \o st.appended
  /\ scope' = st.scope
  /\ k' = k + 1
  /\ UNCHANGED <<lines, pc>>

\* lines 169-171
BlankLine ==
  /\ AtLine
  /\ strip(lines[k]) = <<>>
  /\ Advance(OnBlank(scope))

\* lines 176-187
AssignmentLine ==
  /\ AtLine
  /\ strip(lines[k]) # <<>>
  /\ HasMarker(strip(lines[k]))
  /\ Advance(Assignment(strip(lines[k]), scope))

\* lines 191-195
ExpressionLine ==
  /\ AtLine
  /\ strip(lines[k]) # <<>>
  /\ ~HasMarker(strip(lines[k]))
  /\ Advance(Expression(strip(lines[k]), scope))

Display ==
  /\ pc = "loop"
  /\ k > Len(lines)
  /\ pc' = "done"
  /\ UNCHANGED <<lines, results, scope, k>>

Next ==
  \/ \E doc \in Edits(lines) : TextChanged(doc)
  \/ BlankLine
  \/ AssignmentLine
  \/ ExpressionLine
  \/ Display

Spec == Init /\ [][Next]_vars

(***************************************************************************)
(* What the properties below speak of.                                     *)
(***************************************************************************)
NonBlank(line) == strip(line) # <<>>

IsAssignment(line) == NonBlank(line) /\ HasMarker(strip(line))

Target(line) == strip(split_first(strip(line))[2])

ValidAssignment(line) == IsAssignment(line) /\ isidentifier(Target(line))

InvalidTarget(line) == IsAssignment(line) /\ ~isidentifier(Target(line))

\* the lines whose expression is handed to eval
Evaluates(line) == NonBlank(line) /\ ~InvalidTarget(line)

\* what eval returns or raises for the line the loop is at
ValueNow == eval(ExprText(lines[k]), scope)

RECURSIVE ScopeBefore(_, _)
\* the scope a pass over doc, started from the builtins, has when it
\* reaches line i
ScopeBefore(doc, i) ==
  IF i = 1 THEN Builtins
  ELSE LineStep(doc[i - 1], ScopeBefore(doc, i - 1)).scope

\* the lines of the catalog that bind x when they are evaluated
XBinders == {AssignX, QuarterToX, InfToX, FunctionToX}

\* the last line before i that binds x, or 0
LastXBinder(i) ==
  LET js == {j \in 1..(i - 1) : lines[j] \in XBinders}
  IN  IF js = {} THEN 0 ELSE SetMax(js)

\* no evaluation the model reaches leaves the modelled subset of Python
InSubset == (AtLine /\ Evaluates(lines[k])) => ValueNow.exc # "Unsupported"

\* the results so far are those of the lines before k
C1_Aligned ==
  /\ Len(results) = k - 1
  /\ k <= Len(lines) + 1
  /\ pc = "done" => Len(results) = Len(lines)

(***************************************************************************)
(* C1: one pass appends exactly one result per line, in order: the result  *)
(* of line i is results[i], the results before it are left as they were,   *)
(* and when the loop is over there are as many results as lines.           *)
(***************************************************************************)
C1_OneResultPerLine ==
  /\ []C1_Aligned
  /\ [][AtLine => /\ Len(results') = Len(results) + 1
                  /\ SubSeq(results', 1, Len(results)) = results
                  /\ k' = k + 1]_vars

C1_Witness ==
  /\ pc = "done"
  /\ lines = <<WhitespaceOnly, DivZeroToX, BadTarget>>
  /\ results = <<"", "", "Error: Invalid Name">>

(***************************************************************************)
(* C2: an assignment line with a valid target whose expression evaluates   *)
(* yields the formatted value as its result and binds the target to the    *)
(* value.                                                                  *)
(***************************************************************************)
C2_AssignmentYieldsFormattedValue ==
  [][(AtLine /\ ValidAssignment(lines[k]) /\ ValueNow.exc = "") =>
       /\ format_result(ValueNow.v).exc = ""
       /\ results' = Append(results, format_result(ValueNow.v).s)
       /\ Join(Target(lines[k])) \in DOMAIN scope'
       /\ scope'[Join(Target(lines[k]))] = ValueNow.v]_vars

(***************************************************************************)
(* C3: forward references fail.  A name that is no builtin is in the scope *)
(* at line k only if a line before k of the same pass assigned it and its  *)
(* expression evaluated; "x * 2" yields "" when no line before it binds x  *)
(* and "30" once "10 + 5 == x" is the last line before it that does.       *)
(***************************************************************************)
C3_NoForwardReference ==
  /\ \A n \in (DOMAIN scope) \ (DOMAIN Builtins) :
       \E j \in 1..(k - 1) :
         /\ ValidAssignment(lines[j])
         /\ Join(Target(lines[j])) = n
         /\ eval(ExprText(lines[j]), ScopeBefore(lines, j)).exc = ""
  /\ pc = "done" =>
       \A i \in 1..Len(lines) :
         lines[i] = UseX =>
           /\ LastXBinder(i) = 0 => results[i] = ""
           /\ (LastXBinder(i) # 0 /\ lines[LastXBinder(i)] = AssignX)
                => results[i] = "30"

C3_Witness ==
  /\ pc = "done"
  /\ lines = <<UseX, AssignX, UseX>>
  /\ results = <<"", "15", "30">>

(***************************************************************************)
(* C4: a line with the marker whose target is no identifier yields the     *)
(* error string "Error: Invalid Name", never "", whether or not its left   *)
(* side would evaluate, and leaves the scope as it was.                    *)
(***************************************************************************)
C4_InvalidTargetIsExplicitError ==
  [][(AtLine /\ InvalidTarget(lines[k])) =>
       /\ results' = Append(results, "Error: Invalid Name")
       /\ results'[k] # ""
       /\ scope' = scope]_vars

C4_Witness ==
  /\ pc = "done"
  /\ lines = <<BadTarget, BadTargetBadExpr, UseX>>
  /\ results = <<"Error: Invalid Name", "Error: Invalid Name", "">>
  /\ scope = Builtins

\* eval raises on line j of a pass over doc
FailsAt(doc, j) ==
  Evaluates(doc[j]) /\ eval(ExprText(doc[j]), ScopeBefore(doc, j)).exc # ""

\* a finished pass has the results it would have with a failing line blank
C5_LaterLinesUnaffected ==
  pc = "done" =>
    /\ Len(results) = Len(lines)
    /\ \A j \in 1..Len(lines) :
         FailsAt(lines, j) =>
           /\ results[j] = ""
           /\ Pass([lines EXCEPT ![j] = <<>>], 1, Builtins, <<>>) = results

(***************************************************************************)
(* C5: when eval raises on a line, the line's result is "", the scope is   *)
(* left as it was and the loop goes on to the next line; the pass ends     *)
(* with a result for every line, and the other lines have the results they *)
(* would have had with the failing line blank.                             *)
(***************************************************************************)
C5_FailureIsBlankAndLocal ==
  /\ []C5_LaterLinesUnaffected
  /\ [][(AtLine /\ Evaluates(lines[k]) /\ ValueNow.exc # "") =>
          /\ results' = Append(results, "")
          /\ scope' = scope
          /\ k' = k + 1
          /\ pc' = "loop"]_vars

C5_Witness ==
  /\ pc = "done"
  /\ lines = <<AssignX, NegativeRoot, UseX>>
  /\ results = <<"15", "", "30">>

(***************************************************************************)
(* C6: a pass is a function of the text alone: at every point of the loop  *)
(* the scope is the one a pass started from the builtins has there, and    *)
(* the results of a finished pass are those of such a pass, whatever was   *)
(* evaluated before.                                                       *)
(***************************************************************************)
C6_DependsOnTextOnly ==
  /\ pc = "loop" => scope = ScopeBefore(lines, k)
  /\ pc = "done" => results = Pass(lines, 1, Builtins, <<>>)

\* a text of three lines is at least the second text evaluated
C6_Witness ==
  /\ pc = "done"
  /\ lines = <<UseX, ShadowPi, UsePi>>
  /\ results = <<"", "10", "10">>

\* the uses of pi and of x show the value assigned last before them
C7_LastValueSeen ==
  pc = "done" =>
    \A i \in 1..Len(lines) :
      /\ lines[i] = ShadowPi => results[i] = "10"
      /\ lines[i] = UsePi =>
           results[i] = IF \E j \in 1..(i - 1) : lines[j] = ShadowPi
                          THEN "10" ELSE "3.14"
      /\ (lines[i] = UseX /\ LastXBinder(i) # 0) =>
           results[i] = CASE lines[LastXBinder(i)] = AssignX -> "30"
                          [] lines[LastXBinder(i)] = QuarterToX -> "3.50"
                          [] OTHER -> ""

(***************************************************************************)
(* C7: an assignment to a name that is already bound, builtin or variable, *)
(* is no error and replaces the value, leaving the other names alone; the  *)
(* lines after it see the value assigned last, the lines before it the     *)
(* earlier one.                                                            *)
(***************************************************************************)
C7_AssignmentOverwrites ==
  /\ []C7_LastValueSeen
  /\ [][(AtLine /\ ValidAssignment(lines[k]) /\ ValueNow.exc = "") =>
          /\ results'[k] # "Error: Invalid Name"
          /\ DOMAIN scope' = DOMAIN scope \cup {Join(Target(lines[k]))}
          /\ \A n \in DOMAIN scope' :
               scope'[n] = IF n = Join(Target(lines[k]))
                             THEN ValueNow.v ELSE scope[n]]_vars

C7_Witness ==
  /\ pc = "done"
  /\ lines = <<UsePi, ShadowPi, UsePi>>
  /\ results = <<"3.14", "10", "10">>

(***************************************************************************)
(* C8: percentage sugar is rewritten before evaluation: "100 + 22%"        *)
(* yields "122".                                                           *)
(***************************************************************************)
C8_PercentageSugar ==
  pc = "done" =>
    \A i \in 1..Len(lines) : lines[i] = PercentAdd => results[i] = "122"

(***************************************************************************)
(* C9: conversion is tried first: "0°C to fahrenheit" yields "32.00 °F".   *)
(***************************************************************************)
C9_ConversionFirst ==
  pc = "done" =>
    \A i \in 1..Len(lines) : lines[i] = Conversion => results[i] = "32.00 °F"

(***************************************************************************)
(* C10, as claimed: a line whose result is "" leaves the scope unchanged.  *)
(***************************************************************************)
C10_BlankResultLeavesScope ==
  [][(AtLine /\ results' = Append(results, "")) => scope' = scope]_vars

(***************************************************************************)
(* C10, amended: a line whose result is "" leaves the scope unchanged,     *)
(* except an assignment line with a valid target whose expression          *)
(* evaluated: that line binds its target to the value, which is then a     *)
(* function, inf or nan.                                                   *)
(***************************************************************************)
C10_BlankResultScope ==
  [][(AtLine /\ results' = Append(results, "")) =>
       IF ValidAssignment(lines[k]) /\ ValueNow.exc = ""
         THEN /\ ValueNow.v.t \in {"fn", "inf", "nan"}
              /\ DOMAIN scope' = DOMAIN scope \cup {Join(Target(lines[k]))}
              /\ \A n \in DOMAIN scope' :
                   scope'[n] = IF n = Join(Target(lines[k]))
                                 THEN ValueNow.v ELSE scope[n]
         ELSE scope' = scope]_vars

C10_Witness ==
  /\ pc = "done"
  /\ lines = <<AssignX, DivZeroToX, FunctionToX>>
  /\ results = <<"15", "", "">>
  /\ scope["x"] = Fn("sqrt")

====
